---- MODULE Spec2Model ----
(***************************************************************************)
(* A model of TicketAnalyzer (src/Ollamatest.py): the similarity fan-out   *)
(* (find_similar_tickets / fetch_similarity) and the single-call lookups   *)
(* (get_category, get_solution) against a text-generation backend whose    *)
(* outcome on every request is chosen nondeterministically.                *)
(*                                                                         *)
(* Scores are kept in hundredths (0.7 is 70) so that the comparison with   *)
(* the threshold is exact.  Text is kept as a sequence of lines, a line    *)
(* as the text up to and with its first colon and the text after it.       *)
(***************************************************************************)
EXTENDS Integers, Sequences, FiniteSets, TLC

VARIABLES
    store,        \* the tickets table, rows in rowid order
    fstPc,        \* find_similar_tickets: idle, snapshot, gather, returned, raised
    tickets,      \* its local `tickets`: the rows fetched at line 163
    launched,     \* the (ticket_id, description) arguments of the tasks of line 173
    task,         \* one fetch_similarity coroutine per launched call
    settleOrder,  \* the indices of the settled calls, in completion order
    requests,     \* number of POST requests sent by fetch_similarity
    fstRet,       \* what find_similar_tickets gave back to its caller
    catPc,        \* get_category: idle, attempt, returned, raised
    catAttempt,   \* its loop variable `attempt`
    catTrace,     \* how each of its POST requests ended, oldest first
    catSlept,     \* seconds it spent in time.sleep
    catRet,       \* what get_category gave back to its caller
    solPc,        \* get_solution: idle, attempt, returned
    solTrace,     \* how each of its POST requests ended, oldest first
    solRet,       \* what get_solution gave back to its caller
    catReply,     \* the reply get_category parsed, if it got one
    addPc,        \* add_ticket: idle, fanout, solution, returned, raised
    addId,        \* its argument ticket_id
    addCategory,  \* its argument category
    addRet,       \* what add_ticket gave back to its caller
    addStore0,    \* the tickets table when add_ticket was called
    conns,        \* the operations that hold an open sqlite3 connection
    closeRaised,  \* whether the conn.close() of a finally block raised
    allPc,        \* get_all_tickets: idle, returned
    addCalls,     \* the calls of add_ticket made so far
    rivalPc,      \* add_ticket of another process: idle, checked, returned
    rivalId,      \* its argument ticket_id
    rivalRet      \* what it gave back to its caller

fanVars == <<store, fstPc, tickets, launched, task, settleOrder, requests, fstRet>>
catVars == <<catPc, catAttempt, catTrace, catSlept, catRet, catReply>>
solVars == <<solPc, solTrace, solRet>>
addVars == <<addPc, addId, addCategory, addRet, addStore0, conns, closeRaised, allPc, addCalls>>
rivalVars == <<rivalPc, rivalId, rivalRet>>
vars == <<fanVars, catVars, solVars, addVars, rivalVars>>

----------------------------------------------------------------------------
(* Bounds and program constants *)

\* Largest number of rows in the store when find_similar_tickets starts.
MaxTickets == 2

\* The calls of add_ticket one run makes.
MaxCalls == 2

\* Ticket identifiers the store may hold (the id column is the primary key).
Ids == {"T1", "T2", "T3"}

Description(id) ==
    CASE id = "T1" -> "printer jam"
      [] id = "T2" -> "VPN disconnects"
      [] OTHER     -> "mail bounces"

\* SIMILARITY_THRESHOLD = 0.7, in hundredths.
SIMILARITY_THRESHOLD == 70

\* max_retries of fetch_similarity.
max_retries == 3

\* Python's None where a text is expected.
NoneText == "<None>"

----------------------------------------------------------------------------
(* The backend: what one POST can end with *)

\* asyncio.TimeoutError; a connection that cannot be established; a
\* non-success status (raise_for_status) or a reply that is not JSON.
Failures == {"Timeout", "Unreachable", "BackendError"}

Line(label, rest) == [label |-> label, rest |-> rest]

\* A decoded JSON reply.  json: what the document is; truthy: whether Python
\* takes it for true (a non-empty dict or list); rtype: the `response` member.
Body(json, truthy, rtype, lines) ==
    [json |-> json, truthy |-> truthy, rtype |-> rtype, lines |-> lines]

TextBody(lines) == Body("object", TRUE, "text", lines)

EmptyObject     == Body("object", FALSE, "missing", <<>>)    \* {}
ArrayBody       == Body("array",  TRUE,  "missing", <<>>)    \* [1]
ObjNoResponse   == Body("object", TRUE,  "missing", <<>>)    \* {"error": "x"}
ObjResponseNull == Body("object", TRUE,  "null",    <<>>)    \* {"response": null}

ReplyHigh    == TextBody(<<Line("SIMILARITY:", " 0.9"), Line("SOLUTION:", " Clear tray")>>)
ReplyEqual   == TextBody(<<Line("SIMILARITY:", " 0.7"), Line("SOLUTION:", " N/A")>>)
ReplyLow     == TextBody(<<Line("SIMILARITY:", " 0.1")>>)
ReplyNaN     == TextBody(<<Line("SIMILARITY:", " notanumber")>>)
ReplyNoScore == TextBody(<<Line("", "They look alike"), Line("SOLUTION:", " Clear tray")>>)
ReplyTwice   == TextBody(<<Line("SIMILARITY:", " 0.9"), Line("SIMILARITY:", " 0.1"),
                           Line("SOLUTION:", " Clear tray"), Line("SOLUTION:", " Reboot")>>)
ReplyOver    == TextBody(<<Line("SIMILARITY:", " 1.5"), Line("SOLUTION:", " Reboot")>>)
ReplyBare    == TextBody(<<Line("SIMILARITY:", " 0.9")>>)

Bodies ==
    {EmptyObject, ArrayBody, ObjNoResponse, ObjResponseNull,
     ReplyHigh, ReplyEqual, ReplyLow, ReplyNaN, ReplyNoScore, ReplyTwice, ReplyOver}

\* The result slot of a call that gave up: the None of lines 150 and 156.
NoResult == Body("none", FALSE, "missing", <<>>)

----------------------------------------------------------------------------
(* The response parser of find_similar_tickets (lines 180-191) *)

\* str.strip() on the texts the replies use.
Strip(text) ==
    CASE text = " 0.9"          -> "0.9"
      [] text = " 0.7"          -> "0.7"
      [] text = " 0.1"          -> "0.1"
      [] text = " 1.5"          -> "1.5"
      [] text = " notanumber"   -> "notanumber"
      [] text = " N/A"          -> "N/A"
      [] text = " Clear tray"   -> "Clear tray"
      [] text = " Reboot"       -> "Reboot"
      [] text = " Restart router" -> "Restart router"
      [] text = " no"           -> "no"
      [] text = " network"      -> "network"
      [] text = " Network"      -> "Network"
      [] text = " Hardware "    -> "Hardware"
      [] text = " Frobnication" -> "Frobnication"
      [] text = "  category:"   -> "category:"
      [] OTHER                  -> text

NoScore == [present |-> FALSE, val |-> 0]
Score(v) == [present |-> TRUE, val |-> v]

\* float(text): the texts the backend replies use, in hundredths; anything
\* else raises ValueError, which line 188 turns into None.
ParseFloat(text) ==
    CASE text = "0.9" -> Score(90)
      [] text = "0.7" -> Score(70)
      [] text = "0.1" -> Score(10)
      [] text = "1.5" -> Score(150)
      [] OTHER        -> NoScore

\* The loop of lines 184-191: every line that starts with a label assigns
\* its field again.
RECURSIVE ParseLines(_, _, _)
ParseLines(lines, score, solution) ==
    IF lines = <<>>
    THEN [score |-> score, solution |-> solution]
    ELSE LET line == Head(lines)
         IN  ParseLines(Tail(lines),
                 IF line.label = "SIMILARITY:"
                     THEN ParseFloat(Strip(line.rest)) ELSE score,
                 IF line.label = "SOLUTION:" THEN Strip(line.rest) ELSE solution)

\* `if result:` (line 180).
Truthy(result) == result.truthy

\* result.get("response", "").strip() (line 181) raises AttributeError when
\* the reply is not a dict, or when its response member has no strip().
StripRaises(result) ==
    \/ result.json # "object"
    \/ result.rtype \notin {"missing", "text"}

ResponseLines(result) == IF result.rtype = "text" THEN result.lines ELSE <<>>

Parse(result) == ParseLines(ResponseLines(result), NoScore, NoneText)

\* Line 192.
AboveThresholdInclusive(score) == score.present /\ score.val >= SIMILARITY_THRESHOLD
AboveThreshold(score) == score.present /\ score.val > SIMILARITY_THRESHOLD

\* The body of the loop of lines 179-198 for one gathered result.
EntriesOf(r) ==
    IF Truthy(r.result) /\ AboveThreshold(Parse(r.result).score)
    THEN << [id          |-> r.id,
             description |-> r.description,
             solution    |-> Parse(r.result).solution,
             similarity  |-> Parse(r.result).score.val] >>
    ELSE << >>

RECURSIVE FilterFrom(_, _)
FilterFrom(results, k) ==
    IF k > Len(results) THEN << >>
    ELSE EntriesOf(results[k]) \o FilterFrom(results, k + 1)

\* similar_tickets after the loop.
SimilarTickets(results) == FilterFrom(results, 1)

LoopRaises(results) ==
    \E k \in 1..Len(results) :
        Truthy(results[k].result) /\ StripRaises(results[k].result)

----------------------------------------------------------------------------
(* The store *)

\* A row of the tickets table (lines 46-56); model, timestamp and
\* similarity_group are written and never read back.
TicketRow(id, description, category, solution) ==
    [id |-> id, description |-> description,
     category |-> category, solution |-> solution]

\* A row that was there before.
Row(id) == TicketRow(id, Description(id), "Uncategorized", "Old fix")

StoreIds(s) == {s[k].id : k \in 1..Len(s)}

\* SELECT id, description FROM tickets (lines 162-163).
Snapshot(s) == [k \in 1..Len(s) |-> [id |-> s[k].id, description |-> s[k].description]]

\* The order in which the identifiers were inserted before the call.
IdOrder == <<"T2", "T1", "T3">>

\* The stores find_similar_tickets may start on: the first n rows, for
\* every n up to MaxTickets.
InitialStores ==
    {[k \in 1..n |-> Row(IdOrder[k])] :
        n \in {m \in 0..MaxTickets : m <= Len(IdOrder)}}

----------------------------------------------------------------------------
(* find_similar_tickets and fetch_similarity *)

ReturnList(items) == [kind |-> "list", items |-> items]
ReturnNone  == [kind |-> "none",  items |-> << >>]
Raised      == [kind |-> "raise", items |-> << >>]
NotReturned == [kind |-> "pending", items |-> << >>]

\* What get_solution returns: a text, and where it came from.
SolutionValue(kind, text) == [kind |-> kind, text |-> text]

SolutionPending == SolutionValue("pending", "")

\* `return []` of line 169.
EmptySnapshotReturn == ReturnList(<< >>)

FreshTask == [state |-> "running", attempt |-> 0, failed |-> << >>, result |-> NoResult]

\* The tasks of lines 173-176 are built from the local `tickets`.
LaunchArgs(snapshot, s) == snapshot

\* Lines 145 and 153: whether the loop goes on after the failure of the
\* attempt with index `attempt` (0-based), whatever kind the failure is.
FetchRetriesReachableOnly(kind, attempt) ==
    kind # "Unreachable" /\ attempt < max_retries - 1
FetchRetries(kind, attempt) == attempt < max_retries - 1

\* asyncio.gather (line 177): the results in the order of the tasks.
GatherAsCompleted(args, tasks, order) ==
    [k \in 1..Len(order) |->
        [id |-> args[order[k]].id, description |-> args[order[k]].description,
         result |-> tasks[order[k]].result]]
Gather(args, tasks, order) ==
    [k \in 1..Len(args) |->
        [id |-> args[k].id, description |-> args[k].description,
         result |-> tasks[k].result]]

\* gather resumes the caller once every task is done.
AnySettled(tasks) ==
    \E i \in DOMAIN tasks : tasks[i].state = "settled"
AllSettled(tasks) ==
    \A i \in DOMAIN tasks : tasks[i].state = "settled"

\* Lines 159-169: the one read of the store, and the early return.
FstReadSnapshot ==
    /\ fstPc = "idle"
    /\ tickets' = Snapshot(store)
    /\ IF Snapshot(store) = << >>
       THEN /\ fstPc' = "returned"
            /\ fstRet' = EmptySnapshotReturn
       ELSE /\ fstPc' = "snapshot"
            /\ fstRet' = fstRet
    /\ UNCHANGED <<store, launched, task, settleOrder, requests, catVars, solVars, addVars, rivalVars>>

\* Lines 172-177: one coroutine per ticket, handed to gather.
FstLaunch ==
    /\ fstPc = "snapshot"
    /\ launched' = LaunchArgs(tickets, store)
    /\ task' = [i \in 1..Len(LaunchArgs(tickets, store)) |-> FreshTask]
    /\ fstPc' = "gather"
    /\ UNCHANGED <<store, tickets, settleOrder, requests, fstRet, catVars, solVars, addVars, rivalVars>>

\* Lines 129-156: one pass of the loop of the call for launched[i]: the
\* POST, and then the return or the sleep(1) before the next pass.
FetchSucceeds(i, body) ==
    /\ fstPc = "gather"
    /\ task[i].state = "running"
    /\ requests' = requests + 1
    /\ task' = [task EXCEPT ![i] =
                   [state |-> "settled", attempt |-> @.attempt + 1,
                    failed |-> << >>, result |-> body]]
    /\ settleOrder' = Append(settleOrder, i)
    /\ UNCHANGED <<store, fstPc, tickets, launched, fstRet, catVars, solVars, addVars, rivalVars>>

FetchFails(i, kind) ==
    /\ fstPc = "gather"
    /\ task[i].state = "running"
    /\ requests' = requests + 1
    /\ IF FetchRetries(kind, task[i].attempt)
       THEN /\ task' = [task EXCEPT ![i] =
                           [@ EXCEPT !.attempt = @ + 1,
                                     !.failed = Append(@, kind)]]
            /\ settleOrder' = settleOrder
       ELSE /\ task' = [task EXCEPT ![i] =
                           [state |-> "settled", attempt |-> @.attempt + 1,
                            failed |-> << >>, result |-> NoResult]]
            /\ settleOrder' = Append(settleOrder, i)
    /\ UNCHANGED <<store, fstPc, tickets, launched, fstRet, catVars, solVars, addVars, rivalVars>>

\* Lines 177-200: gather hands the results over, the loop parses and
\* filters them, and the list is returned; an error of the loop escapes.
FstCollect ==
    /\ fstPc = "gather"
    /\ AllSettled(task)
    /\ LET results == Gather(launched, task, settleOrder)
       IN  IF LoopRaises(results)
           THEN /\ fstPc' = "raised"
                /\ fstRet' = Raised
           ELSE /\ fstPc' = "returned"
                /\ fstRet' = ReturnList(SimilarTickets(results))
    /\ UNCHANGED <<store, tickets, launched, task, settleOrder, requests, catVars, solVars, addVars, rivalVars>>

\* Another user of the same database file commits the INSERT of add_ticket
\* (lines 228-241) for an identifier the table does not hold, while the
\* call is under way (a row committed before the call is a row of the
\* initial store).
StoreInsert(id) ==
    /\ fstPc # "idle"
    /\ id \notin StoreIds(store)
    /\ store' = Append(store, Row(id))
    /\ UNCHANGED <<fstPc, tickets, launched, task, settleOrder, requests, fstRet, catVars, solVars, addVars, rivalVars>>

\* No add_ticket and no get_all_tickets was called, here or elsewhere.
AddIdle ==
    /\ addPc = "idle"
    /\ addId = NoneText
    /\ addCategory = NoneText
    /\ addRet = FALSE
    /\ addStore0 = << >>
    /\ conns = {}
    /\ closeRaised = FALSE
    /\ allPc = "idle"
    /\ addCalls = 0
    /\ rivalPc = "idle"
    /\ rivalId = NoneText
    /\ rivalRet = FALSE

LookupsIdle ==
    /\ catPc = "idle"
    /\ catAttempt = 0
    /\ catTrace = << >>
    /\ catSlept = 0
    /\ catRet = NoneText
    /\ catReply = NoResult
    /\ solPc = "idle"
    /\ solTrace = << >>
    /\ solRet = SolutionPending

Init ==
    /\ store \in InitialStores
    /\ fstPc = "idle"
    /\ tickets = << >>
    /\ launched = << >>
    /\ task = << >>
    /\ settleOrder = << >>
    /\ requests = 0
    /\ fstRet = NotReturned
    /\ LookupsIdle
    /\ AddIdle

Next ==
    \/ FstReadSnapshot
    \/ FstLaunch
    \/ \E i \in DOMAIN task, body \in Bodies : FetchSucceeds(i, body)
    \/ \E i \in DOMAIN task, kind \in Failures : FetchFails(i, kind)
    \/ FstCollect
    \/ \E id \in Ids : StoreInsert(id)

Spec == Init /\ [][Next]_vars

----------------------------------------------------------------------------
(* get_category (lines 286-363) *)

\* max_retries of get_category (line 313).
category_max_retries == 3

\* time.sleep(5) (line 354), in seconds, the unit of timeout = 60.
CategorySleep == 5

Uncategorized == "Uncategorized"

\* The first members of categories_list (lines 287-305), in its order.
Categories == <<"Hardware", "Software", "Network", "Email", "Login/Access">>

CategorySet == {Categories[k] : k \in 1..Len(Categories)}

\* str.lower() on the texts the replies and the vocabulary use.
Lower(text) ==
    CASE text = "CATEGORY:"    -> "category:"
      [] text = "Category:"    -> "category:"
      [] text = "Hardware"     -> "hardware"
      [] text = "Software"     -> "software"
      [] text = "Network"      -> "network"
      [] text = "Email"        -> "email"
      [] text = "Login/Access" -> "login/access"
      [] text = "Frobnication" -> "frobnication"
      [] OTHER                 -> text

CatLower   == TextBody(<<Line("CATEGORY:", " network")>>)
CatExact   == TextBody(<<Line("Here is my answer", ""), Line("Category:", " Hardware ")>>)
CatUnknown == TextBody(<<Line("CATEGORY:", " Frobnication")>>)
CatNoLine  == TextBody(<<Line("", "It is a network problem")>>)
CatTwice   == TextBody(<<Line("  category:", " Frobnication"), Line("CATEGORY:", " Network")>>)

\* Replies to the category prompt.
CatBodies ==
    {EmptyObject, ArrayBody, ObjResponseNull,
     CatLower, CatExact, CatUnknown, CatNoLine, CatTwice}

\* Lines 339-345: the first vocabulary member equal to the candidate when
\* both are lowered, else the sentinel.
RECURSIVE MatchFromAsWritten(_, _)
MatchFromAsWritten(candidate, k) ==
    IF k > Len(Categories) THEN Uncategorized
    ELSE IF Lower(candidate) = Lower(Categories[k]) THEN candidate
    ELSE MatchFromAsWritten(candidate, k + 1)

RECURSIVE MatchFrom(_, _)
MatchFrom(candidate, k) ==
    IF k > Len(Categories) THEN Uncategorized
    ELSE IF Lower(candidate) = Lower(Categories[k]) THEN Categories[k]
    ELSE MatchFrom(candidate, k + 1)

\* Lines 333-349: the first line that starts with "category:" once stripped
\* and lowered decides; without such a line the sentinel stays.
RECURSIVE CategoryFrom(_)
CategoryFrom(lines) ==
    IF lines = << >> THEN Uncategorized
    ELSE IF Lower(Strip(Head(lines).label)) = "category:"
         THEN MatchFrom(Strip(Head(lines).rest), 1)
         ELSE CategoryFrom(Tail(lines))

\* response_data.get('response') is falsy (lines 330, 102).
ResponseFalsy(body) ==
    \/ body.rtype \in {"missing", "null"}
    \/ body.rtype = "text" /\ body.lines = << >>

\* Lines 329-349 on a reply; an AttributeError (a reply that is no dict, a
\* response that is no text) is caught at line 361.
CategoryOfReply(body) ==
    IF body.json # "object" THEN Uncategorized
    ELSE IF ResponseFalsy(body) THEN Uncategorized
    ELSE IF body.rtype # "text" THEN Uncategorized
    ELSE CategoryFrom(body.lines)

\* Lines 350-363: only the Timeout clause lets the loop go on, and only
\* before the last pass.
CatRetriesTimeoutOrError(kind, attempt) ==
    kind \in {"Timeout", "BackendError"} /\ attempt < category_max_retries - 1
CatRetriesAnyKind(kind, attempt) == attempt < category_max_retries - 1
CatRetriesEveryTimeout(kind, attempt) == kind = "Timeout"
CatRetries(kind, attempt) ==
    kind = "Timeout" /\ attempt < category_max_retries - 1

\* get_category and get_solution block their caller: one at a time.
CatRunning == catPc \in {"idle", "attempt"} /\ solPc # "attempt"

\* One pass of the loop of lines 315-349 that gets a reply.
CategoryReply(body) ==
    /\ CatRunning
    /\ catTrace' = Append(catTrace, "ok")
    /\ catRet' = CategoryOfReply(body)
    /\ catReply' = body
    /\ catPc' = "returned"
    /\ UNCHANGED <<catAttempt, catSlept, fanVars, solVars, addVars, rivalVars>>

\* One pass of the loop whose POST fails (lines 350-363); a loop that ends
\* without a return makes the function return None.
CategoryFails(kind) ==
    /\ CatRunning
    /\ catTrace' = Append(catTrace, kind)
    /\ IF CatRetries(kind, catAttempt)
       THEN /\ catSlept' = catSlept + CategorySleep
            /\ catAttempt' = catAttempt + 1
            /\ catRet' = catRet
            /\ catPc' = IF catAttempt + 1 < category_max_retries
                        THEN "attempt" ELSE "returned"
       ELSE /\ catRet' = Uncategorized
            /\ catPc' = "returned"
            /\ UNCHANGED <<catAttempt, catSlept>>
    /\ UNCHANGED <<catReply, fanVars, solVars, addVars, rivalVars>>

----------------------------------------------------------------------------
(* get_solution (lines 80-115) *)

SolFull == TextBody(<<Line("REPEAT:", " no"), Line("OLD_TICKET_ID:", " N/A"),
                      Line("SOLUTION:", " Restart router")>>)

\* Replies to the solution prompt.
SolBodies ==
    {EmptyObject, ArrayBody, ObjResponseNull, SolFull, ReplyTwice, ReplyLow}

\* Lines 110-115.
SolutionFailure(kind) ==
    CASE kind = "Timeout"     -> SolutionValue("error", "Error: Request timed out")
      [] kind = "Unreachable" -> SolutionValue("error", "Error: Could not connect")
      [] OTHER                -> SolutionValue("error", "Error getting solution")

\* Lines 105-109: the first line that starts with SOLUTION:, else the whole
\* response.
RECURSIVE SolutionFrom(_)
SolutionFrom(lines) ==
    IF lines = << >> THEN SolutionValue("response", "whole response")
    ELSE IF Head(lines).label = "SOLUTION:"
         THEN SolutionValue("solution", Strip(Head(lines).rest))
         ELSE SolutionFrom(Tail(lines))

\* Lines 101-109 on a reply.
SolutionOfReply(body) ==
    IF body.json # "object" THEN SolutionFailure("AttributeError")
    ELSE IF ResponseFalsy(body)
         THEN SolutionValue("error", "Error: Empty response from API")
    ELSE IF body.rtype # "text" THEN SolutionFailure("AttributeError")
    ELSE SolutionFrom(body.lines)

\* Lines 110-115: every except clause returns; there is no loop.
SolRetriesLikeCategory(kind, attempt) ==
    kind = "Timeout" /\ attempt < category_max_retries - 1
SolRetries(kind, attempt) == FALSE

SolRunning == solPc \in {"idle", "attempt"} /\ catPc # "attempt"

\* Lines 88-109 with a reply.
SolutionReply(body) ==
    /\ SolRunning
    /\ solTrace' = Append(solTrace, "ok")
    /\ solRet' = SolutionOfReply(body)
    /\ solPc' = "returned"
    /\ UNCHANGED <<fanVars, catVars, addVars, rivalVars>>

\* Lines 88-100 and 110-115: the POST fails.
SolutionFails(kind) ==
    /\ SolRunning
    /\ solTrace' = Append(solTrace, kind)
    /\ IF SolRetries(kind, Len(solTrace))
       THEN /\ solPc' = "attempt"
            /\ solRet' = solRet
       ELSE /\ solPc' = "returned"
            /\ solRet' = SolutionFailure(kind)
    /\ UNCHANGED <<fanVars, catVars, addVars, rivalVars>>

\* The two lookups on their own, the store being empty and no fan-out run.
InitLookup ==
    /\ store = << >>
    /\ fstPc = "idle"
    /\ tickets = << >>
    /\ launched = << >>
    /\ task = << >>
    /\ settleOrder = << >>
    /\ requests = 0
    /\ fstRet = NotReturned
    /\ LookupsIdle
    /\ AddIdle

NextLookup ==
    \/ \E body \in CatBodies : CategoryReply(body)
    \/ \E kind \in Failures : CategoryFails(kind)
    \/ \E body \in SolBodies : SolutionReply(body)
    \/ \E kind \in Failures : SolutionFails(kind)

SpecLookup == InitLookup /\ [][NextLookup]_vars

----------------------------------------------------------------------------
(* add_ticket (lines 213-251) and get_all_tickets (lines 253-268) *)

\* What the database file does to the operation that opens and reads it.
StoreOutcomes == {"ok", "connect_fails", "execute_fails"}

\* Replies to the comparison calls add_ticket's fan-out makes.
AddBodies == {ReplyHigh, ReplyBare, ReplyOver, ReplyLow, ObjResponseNull}

\* The category main() hands over when get_category is not run with it
\* (line 395 gives get_category's value); add_ticket only stores it.
AddCategories == {"Hardware"}

\* Replies to the solution prompt add_ticket's get_solution sends.
AddSolBodies == {SolFull, EmptyObject}

\* Lines 217-218: SELECT * FROM tickets WHERE id = ? finds a row.
TicketExistsNever(s, id) == FALSE
TicketExists(s, id) == id \in StoreIds(s)

\* id TEXT PRIMARY KEY (line 48): the INSERT of line 228 raises
\* IntegrityError when the table holds the identifier.
InsertRaisesAlways(s, id) == TRUE
InsertRaisesNever(s, id) == FALSE
InsertRaises(s, id) == id \in StoreIds(s)

\* `if similar_tickets:` (line 223) is false.
NeedsSolutionAlways(similar) == TRUE
NeedsSolution(similar) == similar = << >>

\* The entry with the highest similarity.
BestMatchSolution(similar) ==
    LET best == CHOOSE k \in 1..Len(similar) :
                    \A l \in 1..Len(similar) :
                        similar[l].similarity <= similar[k].similarity
    IN  IF similar[best].solution \in {NoneText, ""}
        THEN "No solution found"
        ELSE similar[best].solution

\* similar_tickets[0]['solution'] or "No solution found" (line 224).
FirstMatchSolution(similar) ==
    IF similar[1].solution \in {NoneText, ""}
    THEN "No solution found"
    ELSE similar[1].solution

\* Lines 228-251 from the INSERT on: the row is committed and True returned,
\* or the INSERT raises, which line 247 turns into False; the finally clause
\* closes the connection either way.
AddInsert(solution) ==
    /\ IF InsertRaises(store, addId)
       THEN /\ store' = store
            /\ addRet' = FALSE
       ELSE /\ store' = Append(store,
                           TicketRow(addId, Description(addId), addCategory, solution))
            /\ addRet' = TRUE
    /\ addPc' = "returned"
    /\ conns' = conns \ {"add_ticket"}

\* Lines 213-222: the connection, the look for the identifier, and either
\* the early return or the start of find_similar_tickets. sqlite3.connect is
\* outside the try: its error escapes with nothing opened.
AddCheck(id, category, outcome) ==
    /\ addPc \in {"idle", "returned", "raised"}
    /\ catPc \in {"off", "returned"}
    /\ addCalls < MaxCalls
    /\ addCalls' = addCalls + 1
    /\ addId' = id
    /\ addCategory' = category
    /\ addStore0' = store
    /\ tickets' = << >>
    /\ launched' = << >>
    /\ task' = << >>
    /\ settleOrder' = << >>
    /\ requests' = 0
    /\ fstRet' = NotReturned
    /\ solPc' = "off"
    /\ solTrace' = << >>
    /\ solRet' = SolutionPending
    /\ allPc' = "idle"
    /\ closeRaised' = FALSE
    /\ CASE outcome = "connect_fails" ->
              /\ addPc' = "raised"
              /\ addRet' = FALSE
              /\ conns' = conns
              /\ fstPc' = "off"
         [] outcome = "execute_fails" ->
              /\ addPc' = "returned"
              /\ addRet' = FALSE
              /\ conns' = conns
              /\ fstPc' = "off"
         [] OTHER ->
              IF TicketExists(store, id)
              THEN /\ addPc' = "returned"
                   /\ addRet' = FALSE
                   /\ conns' = conns
                   /\ fstPc' = "off"
              ELSE /\ addPc' = "fanout"
                   /\ addRet' = FALSE
                   /\ conns' = conns \cup {"add_ticket"}
                   /\ fstPc' = "idle"
    /\ UNCHANGED <<store, catVars, rivalVars>>

\* Lines 159-165 when the database file fails find_similar_tickets: the
\* finally clause runs conn.close() although connect, inside the try, never
\* bound conn (UnboundLocalError); after a failed execute it closes the
\* connection and the error of execute goes on to the caller.
FstStoreFails(kind) ==
    /\ fstPc = "idle"
    /\ fstPc' = "raised"
    /\ fstRet' = Raised
    /\ closeRaised' = (kind = "connect_fails")
    /\ UNCHANGED <<store, tickets, launched, task, settleOrder, requests,
                   catVars, solVars, rivalVars,
                   addPc, addId, addCategory, addRet, addStore0, conns, allPc, addCalls>>

\* Lines 222-251 once find_similar_tickets is over: its error is caught at
\* line 247; with a match the first entry's solution is stored; without one
\* get_solution is called.
AddAfterFanout ==
    /\ addPc = "fanout"
    /\ fstPc \in {"returned", "raised"}
    /\ IF fstPc = "raised"
       THEN /\ addRet' = FALSE
            /\ addPc' = "returned"
            /\ conns' = conns \ {"add_ticket"}
            /\ UNCHANGED <<store, solPc>>
       ELSE IF NeedsSolution(fstRet.items)
       THEN /\ addPc' = "solution"
            /\ solPc' = "idle"
            /\ UNCHANGED <<store, addRet, conns>>
       ELSE /\ AddInsert(FirstMatchSolution(fstRet.items))
            /\ solPc' = solPc
    /\ UNCHANGED <<fstPc, tickets, launched, task, settleOrder, requests, fstRet,
                   solTrace, solRet, catVars, rivalVars,
                   addId, addCategory, addStore0, closeRaised, allPc, addCalls>>

\* Lines 226-251: what get_solution returned is stored.
AddInsertGenerated ==
    /\ addPc = "solution"
    /\ solPc = "returned"
    /\ AddInsert(solRet.text)
    /\ UNCHANGED <<fstPc, tickets, launched, task, settleOrder, requests, fstRet,
                   catVars, solVars, rivalVars,
                   addId, addCategory, addStore0, closeRaised, allPc, addCalls>>

\* Lines 253-268, called once add_ticket has returned True (lines 398-399):
\* conn starts as None and the finally clause closes it only when connect
\* bound it, so the call ends with no connection open and no error, whatever
\* the file does.
GetAllTickets(outcome) ==
    /\ addPc = "returned"
    /\ addRet
    /\ allPc = "idle"
    /\ allPc' = "returned"
    /\ conns' = IF outcome = "connect_fails"
                THEN conns
                ELSE (conns \cup {"get_all_tickets"}) \ {"get_all_tickets"}
    /\ UNCHANGED <<fanVars, catVars, solVars, rivalVars,
                   addPc, addId, addCategory, addRet, addStore0, closeRaised, addCalls>>

\* Nothing runs yet: find_similar_tickets and get_solution wait for
\* add_ticket to call them, and the category is an argument.
InitAdd ==
    /\ store \in InitialStores
    /\ fstPc = "off"
    /\ tickets = << >>
    /\ launched = << >>
    /\ task = << >>
    /\ settleOrder = << >>
    /\ requests = 0
    /\ fstRet = NotReturned
    /\ catPc = "off"
    /\ catAttempt = 0
    /\ catTrace = << >>
    /\ catSlept = 0
    /\ catRet = NoneText
    /\ catReply = NoResult
    /\ solPc = "off"
    /\ solTrace = << >>
    /\ solRet = SolutionPending
    /\ AddIdle

NextAdd ==
    \/ \E id \in Ids, category \in AddCategories, outcome \in StoreOutcomes :
           AddCheck(id, category, outcome)
    \/ \E kind \in StoreOutcomes \ {"ok"} : FstStoreFails(kind)
    \/ FstReadSnapshot
    \/ FstLaunch
    \/ \E i \in DOMAIN task, body \in AddBodies : FetchSucceeds(i, body)
    \/ \E i \in DOMAIN task, kind \in Failures : FetchFails(i, kind)
    \/ FstCollect
    \/ AddAfterFanout
    \/ \E body \in AddSolBodies : SolutionReply(body)
    \/ \E kind \in Failures : SolutionFails(kind)
    \/ AddInsertGenerated
    \/ \E outcome \in StoreOutcomes : GetAllTickets(outcome)

SpecAdd == InitAdd /\ [][NextAdd]_vars

\* The backend is down: every request of get_category, of the comparison
\* calls and of get_solution fails, and main() hands get_category's value to
\* add_ticket (lines 395-398).
InitOutage ==
    /\ store \in InitialStores
    /\ fstPc = "off"
    /\ tickets = << >>
    /\ launched = << >>
    /\ task = << >>
    /\ settleOrder = << >>
    /\ requests = 0
    /\ fstRet = NotReturned
    /\ catPc = "idle"
    /\ catAttempt = 0
    /\ catTrace = << >>
    /\ catSlept = 0
    /\ catRet = NoneText
    /\ catReply = NoResult
    /\ solPc = "off"
    /\ solTrace = << >>
    /\ solRet = SolutionPending
    /\ AddIdle

NextOutage ==
    \/ \E kind \in Failures : CategoryFails(kind)
    \/ \E id \in Ids : catPc = "returned" /\ AddCheck(id, catRet, "ok")
    \/ FstReadSnapshot
    \/ FstLaunch
    \/ \E i \in DOMAIN task, kind \in Failures : FetchFails(i, kind)
    \/ FstCollect
    \/ AddAfterFanout
    \/ \E kind \in Failures : SolutionFails(kind)
    \/ AddInsertGenerated

SpecOutage == InitOutage /\ [][NextOutage]_vars

----------------------------------------------------------------------------
(* A second add_ticket on the same database file *)

\* Replies to the comparison calls while another add_ticket runs.
RaceBodies == {ReplyHigh, ReplyLow, ObjResponseNull}

\* How the other add_ticket gets from its check to line 228: it reaches the
\* INSERT, or an error before it is caught at line 247.
RivalOutcomes == {"insert", "error_before"}

\* The row the other add_ticket writes.
RivalRow(id) == TicketRow(id, Description(id), Uncategorized, "Rival fix")

\* Lines 213-220 of the other call: its SELECT does not find the identifier.
RivalCheck(id) ==
    /\ rivalPc = "idle"
    /\ ~TicketExists(store, id)
    /\ rivalPc' = "checked"
    /\ rivalId' = id
    /\ UNCHANGED <<fanVars, catVars, solVars, addVars, rivalRet>>

\* Lines 222-251 of the other call: the INSERT and its commit are one
\* step of the database, and the primary key decides whether it raises.
RivalInsert(outcome) ==
    /\ rivalPc = "checked"
    /\ IF outcome = "error_before"
       THEN /\ rivalPc' = "aborted"
            /\ rivalRet' = FALSE
            /\ store' = store
       ELSE /\ rivalPc' = "returned"
            /\ IF InsertRaises(store, rivalId)
               THEN /\ rivalRet' = FALSE
                    /\ store' = store
               ELSE /\ rivalRet' = TRUE
                    /\ store' = Append(store, RivalRow(rivalId))
    /\ UNCHANGED <<fstPc, tickets, launched, task, settleOrder, requests, fstRet,
                   catVars, solVars, addVars, rivalId>>

NextRace ==
    \/ \E id \in Ids : addPc = "idle" /\ AddCheck(id, "Hardware", "ok")
    \/ FstReadSnapshot
    \/ FstLaunch
    \/ \E i \in DOMAIN task, body \in RaceBodies : FetchSucceeds(i, body)
    \/ \E i \in DOMAIN task, kind \in Failures : FetchFails(i, kind)
    \/ FstCollect
    \/ AddAfterFanout
    \/ \E body \in AddSolBodies : SolutionReply(body)
    \/ \E kind \in Failures : SolutionFails(kind)
    \/ AddInsertGenerated
    \/ \E id \in Ids : RivalCheck(id)
    \/ \E outcome \in RivalOutcomes : RivalInsert(outcome)

SpecRace == InitAdd /\ [][NextRace]_vars

----------------------------------------------------------------------------
(* Properties of the fan-out *)

SnapshotIds == {tickets[k].id : k \in 1..Len(tickets)}
ReturnedIds == {fstRet.items[k].id : k \in 1..Len(fstRet.items)}
PositionOf(id) == CHOOSE k \in 1..Len(tickets) : tickets[k].id = id

\* The score the reply of call i states, by lines 184-189.
ScoreOf(i) == Parse(task[i].result).score

\* C1: when find_similar_tickets returns, a snapshot ticket has an entry in
\* the returned list if and only if its call ended with a reply whose parsed
\* score is present and strictly greater than 0.7; a score of exactly 0.7 or
\* below, an absent score and a call that used up its retries give no entry.
\* No ticket has two entries and no entry is for another ticket.
C1_ThresholdFilter ==
    fstPc = "returned" =>
        /\ fstRet.kind = "list"
        /\ \A i \in 1..Len(tickets) :
               (tickets[i].id \in ReturnedIds) <=>
                   /\ task[i].result # NoResult
                   /\ ScoreOf(i).present
                   /\ ScoreOf(i).val > SIMILARITY_THRESHOLD
        /\ ReturnedIds \subseteq SnapshotIds
        /\ Cardinality(ReturnedIds) = Len(fstRet.items)

\* A return with one ticket scored 0.9 (kept) and one scored exactly 0.7
\* (dropped).
C1_Witness ==
    /\ fstPc = "returned"
    /\ Len(tickets) = 2
    /\ \E i, j \in 1..Len(tickets) :
          /\ task[i].result = ReplyHigh
          /\ task[j].result = ReplyEqual
          /\ ReturnedIds = {tickets[i].id}

\* C2: the entries of the returned list are in the order of the snapshot,
\* whatever the order in which the calls completed and whatever the scores.
C2_SnapshotOrder ==
    fstPc = "returned" =>
        \A k, l \in 1..Len(fstRet.items) :
            k < l => PositionOf(fstRet.items[k].id) < PositionOf(fstRet.items[l].id)

\* Two entries returned although the second ticket's call completed first
\* and the first entry has the lower score.
C2_Witness ==
    /\ fstPc = "returned"
    /\ Len(fstRet.items) = 2
    /\ settleOrder = <<2, 1>>
    /\ fstRet.items[1].similarity < fstRet.items[2].similarity

\* C3: the calls launched are exactly the tickets of the one snapshot, one
\* call each and none for a row inserted afterwards; and find_similar_tickets
\* has neither filtered nor returned while one of them is unsettled.
C3_WaitsForAll ==
    /\ fstPc \in {"gather", "returned", "raised"} /\ tickets # << >> =>
          /\ launched = tickets
          /\ DOMAIN task = 1..Len(tickets)
          /\ \A id \in StoreIds(store) \ SnapshotIds :
                 \A k \in 1..Len(launched) : launched[k].id # id
    /\ fstPc \in {"returned", "raised"} /\ tickets # << >> =>
          /\ AllSettled(task)
          /\ Len(settleOrder) = Len(tickets)
    /\ fstPc \in {"idle", "snapshot", "gather"} => fstRet = NotReturned

\* The fan-out still waits: one call has already answered above the
\* threshold, another is between attempts, and a row was inserted meanwhile.
C3_Witness ==
    /\ fstPc = "gather"
    /\ fstRet = NotReturned
    /\ Len(store) > Len(tickets)
    /\ \E i, j \in DOMAIN task :
          /\ task[i].state = "settled" /\ task[i].result = ReplyHigh
          /\ task[j].state = "running" /\ task[j].attempt >= 1

\* C4: on an empty snapshot find_similar_tickets returns the empty list and
\* no request is sent to the backend.
C4_EmptySnapshot ==
    fstPc # "idle" /\ tickets = << >> =>
        /\ fstPc = "returned"
        /\ fstRet = ReturnList(<< >>)
        /\ requests = 0
        /\ launched = << >>
        /\ task = << >>

C4_Witness ==
    /\ fstPc = "returned"
    /\ tickets = << >>
    /\ store # << >>

RECURSIVE SumAttempts(_, _)
SumAttempts(tasks, k) ==
    IF k > Len(tasks) THEN 0 ELSE tasks[k].attempt + SumAttempts(tasks, k + 1)

\* C5: a comparison call makes its attempts one after another; while it
\* runs, every attempt so far has failed (Timeout, Unreachable or another
\* error alike) and fewer than 3 were made; it settles with a reply at the
\* first attempt that succeeds, which is one of the first 3, and settles
\* without a result only when the 3rd attempt has failed.
C5_RetryPolicy ==
    /\ \A i \in DOMAIN task :
          /\ task[i].state = "running" =>
                /\ task[i].attempt < max_retries
                /\ Len(task[i].failed) = task[i].attempt
                /\ \A k \in 1..Len(task[i].failed) : task[i].failed[k] \in Failures
          /\ task[i].state = "settled" /\ task[i].result = NoResult =>
                task[i].attempt = max_retries
          /\ task[i].state = "settled" /\ task[i].result # NoResult =>
                task[i].attempt \in 1..max_retries
    /\ requests = SumAttempts(task, 1)

\* One call answered on its 3rd attempt while another, after two Unreachable
\* attempts, is about to make its 3rd.
C5_Witness ==
    \E i, j \in DOMAIN task :
        /\ task[i].state = "settled" /\ task[i].result = ReplyHigh /\ task[i].attempt = 3
        /\ task[j].state = "running" /\ task[j].failed = <<"Unreachable", "Unreachable">>

\* C6: no error escapes find_similar_tickets, whatever the backend does.
C6_NeverRaises ==
    fstPc # "raised" /\ fstRet.kind # "raise"

\* The lines of reply i that carry the given label.
LinesWith(i, label) ==
    {k \in 1..Len(ResponseLines(task[i].result)) :
        ResponseLines(task[i].result)[k].label = label}

FirstLineWith(i, label) ==
    CHOOSE k \in LinesWith(i, label) : \A l \in LinesWith(i, label) : k <= l

\* The score and the solution of the first line with each label in reply i.
FirstScore(i) ==
    IF LinesWith(i, "SIMILARITY:") = {} THEN NoScore
    ELSE ParseFloat(Strip(
             ResponseLines(task[i].result)[FirstLineWith(i, "SIMILARITY:")].rest))

FirstSolution(i) ==
    IF LinesWith(i, "SOLUTION:") = {} THEN NoneText
    ELSE Strip(ResponseLines(task[i].result)[FirstLineWith(i, "SOLUTION:")].rest)

\* C13: the score of a reply is the one of its first SIMILARITY: line and
\* the solution the one of its first SOLUTION: line, each found apart from
\* the other; later lines with the same label change neither, so a ticket is
\* returned exactly when its first score is above the threshold, with that
\* score and the first solution.
C13_FirstLineWins ==
    fstPc = "returned" =>
        /\ \A i \in 1..Len(tickets) :
               task[i].result # NoResult =>
                   ((tickets[i].id \in ReturnedIds) <=>
                       (FirstScore(i).present
                           /\ FirstScore(i).val > SIMILARITY_THRESHOLD))
        /\ \A k \in 1..Len(fstRet.items) :
               /\ fstRet.items[k].similarity =
                      FirstScore(PositionOf(fstRet.items[k].id)).val
               /\ fstRet.items[k].solution =
                      FirstSolution(PositionOf(fstRet.items[k].id))

\* C14: every entry find_similar_tickets returns has a similarity between
\* 0 and 1; a reply that states 1.5 gives no entry with that score.
C14_ScoreInRange ==
    fstPc = "returned" =>
        \A k \in 1..Len(fstRet.items) : fstRet.items[k].similarity \in 0..100


----------------------------------------------------------------------------
(* Properties of the lookups *)

LastOf(trace) == trace[Len(trace)]

\* The failed attempts of get_category that were followed by another pass.
CatRetried == IF catPc = "returned" THEN Len(catTrace) - 1 ELSE Len(catTrace)

\* C7: get_category ends, within 3 attempts, with a member of the category
\* vocabulary or with "Uncategorized", whatever the backend does on each
\* attempt; it gives back no absent value and lets no error escape.
C7_CategoryAlwaysNamed ==
    /\ catPc \in {"idle", "attempt", "returned"}
    /\ Len(catTrace) <= category_max_retries
    /\ catPc = "attempt" => catAttempt < category_max_retries
    /\ catPc = "returned" => catRet \in CategorySet \cup {Uncategorized}

\* Three timeouts in a row end in the sentinel.
C7_Witness ==
    /\ catPc = "returned"
    /\ catTrace = <<"Timeout", "Timeout", "Timeout">>
    /\ catRet = Uncategorized

\* C8 as claimed: a Timeout or a BackendError is followed by another attempt
\* while fewer than 3 were made, after a pause of 1 time unit, and the
\* sentinel comes for these failures only after the 3rd failed attempt.
C8_RetriesTimeoutAndError ==
    /\ catPc = "returned" /\ catTrace # << >>
          /\ LastOf(catTrace) \in {"Timeout", "BackendError"} =>
              Len(catTrace) = category_max_retries
    /\ catSlept = 1 * CatRetried

\* C8 as amended: only a Timeout is followed by another attempt, while fewer
\* than 3 were made and after a pause of 5 time units, and the sentinel comes
\* for Timeout only after the 3rd failed attempt; a BackendError is not
\* retried, the sentinel comes at once.
C8_RetriesTimeoutOnly ==
    /\ catPc = "returned" /\ catTrace # << >> /\ LastOf(catTrace) = "Timeout" =>
          Len(catTrace) = category_max_retries
    /\ \A k \in 1..Len(catTrace) :
          /\ k < Len(catTrace) => catTrace[k] = "Timeout"
          /\ catTrace[k] = "BackendError" =>
                catPc = "returned" /\ catRet = Uncategorized
    /\ catPc = "attempt" =>
          \A k \in 1..Len(catTrace) : catTrace[k] = "Timeout"
    /\ catAttempt = CatRetried
    /\ catSlept = 5 * CatRetried

\* A Timeout was retried after 5 time units and the BackendError that came
\* next ended the lookup.
C8_Witness ==
    /\ catPc = "returned"
    /\ catTrace = <<"Timeout", "BackendError">>
    /\ catSlept = 5
    /\ catRet = Uncategorized

\* C9: in get_category the first attempt that ends Unreachable is the last
\* attempt, also after earlier Timeouts, and the sentinel is returned.
C9_UnreachableEndsLookup ==
    \A k \in 1..Len(catTrace) :
        catTrace[k] = "Unreachable" =>
            /\ k = Len(catTrace)
            /\ catPc = "returned"
            /\ catRet = Uncategorized

C9_Witness ==
    /\ catPc = "returned"
    /\ catTrace = <<"Timeout", "Unreachable">>
    /\ catRet = Uncategorized

\* C10 as claimed: get_solution gives its failure value for a Timeout or a
\* BackendError only after the 3rd failed attempt.
C10_SolutionRetried ==
    solPc = "returned" /\ LastOf(solTrace) \in {"Timeout", "BackendError"} =>
        Len(solTrace) = 3

\* C10 as amended: get_solution makes one attempt and no more; when that
\* attempt fails, with Timeout, BackendError or Unreachable, it gives its
\* failure value at once.
C10_SolutionSingleAttempt ==
    /\ solPc \in {"idle", "returned"}
    /\ Len(solTrace) <= 1
    /\ solPc = "returned" =>
          /\ Len(solTrace) = 1
          /\ solTrace[1] \in Failures =>
                solRet.kind = "error" /\ solRet = SolutionFailure(solTrace[1])

C10_Witness ==
    /\ solPc = "returned"
    /\ solTrace = <<"Timeout">>
    /\ solRet.kind = "error"

\* The lines of the reply get_category parsed that start with "category:"
\* once stripped and lowered.
CategoryLines ==
    {k \in 1..Len(ResponseLines(catReply)) :
        Lower(Strip(ResponseLines(catReply)[k].label)) = "category:"}

\* The trimmed value of the first of them.
CategoryCandidate ==
    Strip(ResponseLines(catReply)[
        CHOOSE k \in CategoryLines : \A l \in CategoryLines : k <= l].rest)

\* C15: when get_category got a reply, it returns the vocabulary member, in
\* the vocabulary's spelling, that equals the trimmed value of the reply's
\* CATEGORY: line when case is ignored; it returns "Uncategorized" when no
\* member does or when the reply has no such line.
C15_CategoryMatch ==
    catPc = "returned" /\ catReply # NoResult =>
        IF CategoryLines # {}
               /\ \E v \in CategorySet : Lower(v) = Lower(CategoryCandidate)
        THEN /\ catRet \in CategorySet
             /\ Lower(catRet) = Lower(CategoryCandidate)
        ELSE catRet = Uncategorized

\* "CATEGORY: network" gives "Network".
C15_Witness ==
    /\ catPc = "returned"
    /\ catReply = CatLower
    /\ catRet = "Network"

----------------------------------------------------------------------------
(* Properties of add_ticket *)

\* The row add_ticket wrote: rows are appended.
LastRow == store[Len(store)]

\* C11: add_ticket called with an identifier the store already holds returns
\* failure, leaves every row as it was and sends neither a comparison call
\* nor a solution call; and the store never holds two rows with one
\* identifier, whatever calls were made.
C11_DuplicateRejected ==
    /\ addPc # "idle" /\ addId \in StoreIds(addStore0) =>
          /\ addPc \in {"returned", "raised"}
          /\ addPc = "returned" => addRet = FALSE
          /\ store = addStore0
          /\ requests = 0
          /\ solTrace = << >>
          /\ fstPc = "off"
          /\ solPc = "off"
    /\ \A k, l \in 1..Len(store) : store[k].id = store[l].id => k = l

\* The second call repeats the identifier the first call inserted with the
\* solution of a match, and is turned down.
C11_Witness ==
    /\ addCalls = 2
    /\ addPc = "returned"
    /\ addRet = FALSE
    /\ addStore0 # << >>
    /\ addStore0[Len(addStore0)].id = addId
    /\ addStore0[Len(addStore0)].solution = "Clear tray"
    /\ store = addStore0

\* C16: for a new identifier get_solution is called exactly when the fan-out
\* returned no match; and no solution request is sent and no row is written
\* before find_similar_tickets has returned with every call settled.
C16_SolutionIffNoMatch ==
    /\ solTrace # << >> \/ addPc = "solution" =>
          /\ fstPc = "returned"
          /\ AllSettled(task)
          /\ fstRet.items = << >>
    /\ addPc # "idle" /\ store # addStore0 =>
          /\ fstPc = "returned"
          /\ AllSettled(task)
    /\ addPc = "returned" /\ fstPc = "returned" =>
          (solTrace # << >> <=> fstRet.items = << >>)

\* Two stored tickets, neither a match (one scored 0.1, one never answered):
\* the solution was asked for, once, and the ticket inserted.
C16_Witness ==
    /\ addPc = "returned"
    /\ addRet
    /\ Len(tickets) = 2
    /\ fstRet = ReturnList(<< >>)
    /\ \E i, j \in DOMAIN task :
          task[i].result = ReplyLow /\ task[j].result = NoResult
    /\ Len(solTrace) = 1

\* The returned match that comes first in the snapshot.
FirstMatch ==
    CHOOSE k \in 1..Len(fstRet.items) :
        \A l \in 1..Len(fstRet.items) :
            PositionOf(fstRet.items[k].id) <= PositionOf(fstRet.items[l].id)

\* C18: when the fan-out returned matches, the row add_ticket writes carries
\* the solution of the match that comes first in the snapshot, or "No
\* solution found" when that match has none, whatever the other scores are.
C18_FirstMatchStored ==
    addPc = "returned" /\ addRet /\ fstRet.items # << >> =>
        /\ LastRow.id = addId
        /\ LastRow.solution =
               IF fstRet.items[FirstMatch].solution \in {NoneText, ""}
               THEN "No solution found"
               ELSE fstRet.items[FirstMatch].solution

\* The first match scored 0.9, the second 1.5: the first one's solution is
\* stored.
C18_Witness ==
    /\ addPc = "returned"
    /\ addRet
    /\ Len(fstRet.items) = 2
    /\ task[1].result = ReplyHigh
    /\ task[2].result = ReplyOver
    /\ LastRow.solution = "Clear tray"

\* C17: find_similar_tickets, add_ticket and get_all_tickets end, by return
\* or by error, with the connection they opened closed, also when opening
\* or reading the store fails and when the fan-out inside add_ticket fails;
\* and closing raises no error.
C17_ConnectionsReleased ==
    /\ closeRaised = FALSE
    /\ addPc \in {"idle", "returned", "raised"} => "add_ticket" \notin conns
    /\ fstPc \in {"off", "returned", "raised"} =>
          "find_similar_tickets" \notin conns
    /\ "get_all_tickets" \notin conns

\* The texts get_solution gives back when its request fails.
FallbackSolutions == {SolutionFailure(kind).text : kind \in Failures}

\* C12: with the backend down for every request, get_category followed by
\* add_ticket for a new identifier ends with add_ticket returning success
\* and the ticket inserted, its category "Uncategorized" and its solution
\* one of get_solution's failure texts; the call is never stuck before that.
C12_OutageStillAdds ==
    /\ catPc = "returned" => catRet = Uncategorized
    /\ addPc \in {"fanout", "solution"} => ENABLED NextOutage
    /\ addPc = "returned" /\ addId \notin StoreIds(addStore0) =>
          /\ addRet
          /\ Len(store) = Len(addStore0) + 1
          /\ LastRow.id = addId
          /\ LastRow.category = Uncategorized
          /\ LastRow.solution \in FallbackSolutions

\* get_category gave up after three timeouts, both comparison calls used up
\* their attempts, get_solution could not connect, and the ticket is in.
C12_Witness ==
    /\ catTrace = <<"Timeout", "Timeout", "Timeout">>
    /\ addPc = "returned"
    /\ addRet
    /\ Len(tickets) = 2
    /\ requests = 2 * max_retries
    /\ solTrace = <<"Unreachable">>
    /\ LastRow = TicketRow(addId, Description(addId), Uncategorized,
                           "Error: Could not connect")

\* The rows of the store with the identifier of the call.
RowsOfAddId == {k \in 1..Len(store) : store[k].id = addId}

\* The solution the call stores if its INSERT goes through (lines 223-226).
SolutionToStore ==
    IF fstRet.items # << >> THEN FirstMatchSolution(fstRet.items) ELSE solRet.text

\* Both calls are over, for the same identifier, and each had passed its
\* existence check before the other inserted.
RaceOver ==
    /\ addPc = "returned"
    /\ rivalPc \in {"returned", "aborted"}
    /\ rivalId = addId
    /\ ~TicketExists(addStore0, addId)

\* C19: when two add_ticket calls for the same new identifier interleave, at
\* most one returns success and the store never holds two rows for the
\* identifier; when both got as far as the INSERT exactly one succeeded, the
\* one row is the row it wrote, and the other returned failure.
C19_OneWinner ==
    RaceOver =>
        /\ ~(addRet /\ rivalRet)
        /\ Cardinality(RowsOfAddId) <= 1
        /\ addRet =>
              /\ Cardinality(RowsOfAddId) = 1
              /\ \A k \in RowsOfAddId :
                     store[k] = TicketRow(addId, Description(addId),
                                          addCategory, SolutionToStore)
        /\ rivalRet =>
              /\ Cardinality(RowsOfAddId) = 1
              /\ \A k \in RowsOfAddId : store[k] = RivalRow(addId)
        /\ rivalPc = "returned" /\ fstPc = "returned" => (addRet \/ rivalRet)

\* The other call inserted while this one's comparison calls ran; this one
\* found a match, reached its INSERT and returned failure.
C19_Witness ==
    /\ RaceOver
    /\ rivalRet
    /\ ~addRet
    /\ fstPc = "returned"
    /\ fstRet.items # << >>
    /\ addId \notin SnapshotIds
    /\ \E k \in RowsOfAddId : store[k] = RivalRow(addId)

====
